---- MODULE Spec2Model ----
(***************************************************************************)
(* The self-supervised evaluation protocol of palbolts / conduit:          *)
(*   src/conduit/models/self_supervised/base.py  (lib = "conduit")         *)
(*   src/bolts/models/self_supervised/base.py    (lib = "bolts")           *)
(* Objects live in heaps (sequences indexed by object id); None is id 0.   *)
(* A trainer references its fit loop by id, so that a deep and a shallow   *)
(* copy of a trainer differ.                                               *)
(***************************************************************************)
EXTENDS Integers, Sequences, FiniteSets, TLC

VARIABLES
    lib,                \* which of the two packages the model comes from
    pl_decrement,       \* the training engine decrements current_epoch when a fit ends
    hook_freezes,       \* the classifier factory hook freezes the shared feature extractor
    datamodules,        \* heap of data modules
    trainers,           \* heap of trainers
    fit_loops,          \* heap of fit loops (budget and counters of a trainer)
    classifiers,        \* heap of evaluation classifiers
    datamodule,         \* self.datamodule (None before build)
    trainer,            \* self.trainer (None before build)
    _finetuner,         \* self._finetuner / self._eval_trainer
    _ft_clf,            \* self._ft_clf / self._eval_clf
    eval_batch_size,    \* self.eval_batch_size (None or a size)
    eval_epochs,        \* self.eval_epochs
    student,            \* gradient/optimizer state of the outer model's encoder
    phase,              \* Idle | Ready | Evaluating | Aborted
    stage,              \* the stage of the evaluation the engine is in
    fit_call,           \* the last nested fit: trainer, classifier, loader, epochs
    results,            \* the metrics the last inference_epoch_end returned
    rounds,             \* the classifier of each on_inference_start call, in order
    constructed,        \* how many classifiers / nested trainers were constructed
    momentum_schedule,  \* what the momentum_schedule hook returns
    features,           \* the encoder the features hook hands to the classifier
    encoders,           \* self.student / self.teacher: the parameters of each
    batch_x,            \* batch.x, the input of _get_positives
    batch_transforms,   \* self.batch_transforms ("None" or a transform)
    positives,          \* what the last call of _get_positives gave
    dims,               \* the dims (C, H, W) of the user's data module
    _global_crop_size,  \* self._global_crop_size (NoSize, an int or a pair)
    _local_crop_size,   \* self._local_crop_size, in hundredths (a float or a pair)
    crop_size,          \* what the last read of local_crop_size gave
    split_modules,      \* the DummyVisionDataModules made, with their splits
    datasets,           \* heap of CdtDatasets
    cat_call,           \* the last call of cat, + or +=
    access,             \* the last read of dim_s, dim_y, card_y or card_s
    tabular_dm,         \* a tabular data module and the arguments it was made with
    first_batch         \* the first batch of its train_dataloader()

vars == <<lib, pl_decrement, hook_freezes, datamodules, trainers, fit_loops,
          classifiers, datamodule, trainer, _finetuner, _ft_clf, eval_batch_size,
          eval_epochs, student, phase, stage, fit_call, results, rounds, constructed,
          momentum_schedule, features, encoders,
          batch_x, batch_transforms, positives,
          dims, _global_crop_size, _local_crop_size, crop_size, split_modules,
          datasets, cat_call, access, tabular_dm, first_batch>>

\* the variables of the datasets
data_vars == <<datasets, cat_call, access, tabular_dm, first_batch>>

---------------------------------------------------------------------------
(* Bounds of the model *)

MaxRounds == 2
EvalEpochs == 2
OuterMaxEpochs == 1
MaxSteps == 2
MaxBatch == 2
MaxGlobalCrops == 3
MaxLocalCrops == 1
NumSamples == 4
MaxSetups == 2
MaxSamples == 2
MaxCats == 1
MaxClassifiers == MaxRounds + 1

(* Program constants *)

None == 0

Stages == {"validate", "test"}

\* the user's data module and trainer, the arguments of build
user_dm == 1
user_trainer == 1

---------------------------------------------------------------------------
(* The object state the hooks read and write, threaded through them. *)

State ==
    [datamodules |-> datamodules, trainers |-> trainers, fit_loops |-> fit_loops,
     classifiers |-> classifiers, datamodule |-> datamodule, trainer |-> trainer,
     _finetuner |-> _finetuner, _ft_clf |-> _ft_clf, student |-> student,
     constructed |-> constructed, encoders |-> encoders]

Install(s) ==
    /\ datamodules' = s.datamodules
    /\ trainers' = s.trainers
    /\ fit_loops' = s.fit_loops
    /\ classifiers' = s.classifiers
    /\ datamodule' = s.datamodule
    /\ trainer' = s.trainer
    /\ _finetuner' = s._finetuner
    /\ _ft_clf' = s._ft_clf
    /\ student' = s.student
    /\ constructed' = s.constructed
    /\ encoders' = s.encoders

---------------------------------------------------------------------------
(* gcopy(obj, deep, **overrides): copy, then set the overridden attributes  *)
(* on the copy. Each returns the heap(s) with the copy added and its id.    *)

\* a copy that is the object itself
gcopy_alias(heap, id) ==
    [heap |-> heap, id |-> id]

\* gcopy(self.datamodule, deep=False, ...): the copy shares the underlying data
gcopy_shallow(heap, id) ==
    [heap |-> Append(heap, heap[id]), id |-> Len(heap) + 1]

\* gcopy(self.trainer, deep=True, ...): the fit loop is copied with the trainer
gcopy_deep(ts, loops, id) ==
    [trainers |-> Append(ts, [ts[id] EXCEPT !.fit_loop = Len(loops) + 1]),
     fit_loops |-> Append(loops, loops[ts[id].fit_loop]),
     id |-> Len(ts) + 1]

---------------------------------------------------------------------------
(* build *)

\* CdtModel.build / PBModel.build(datamodule, trainer, copy): binds the data
\* module and the trainer to the model, copies of them when copy is set.
CdtModel_build(s, dm, tr, copy) ==
    IF copy
    THEN LET d == gcopy_shallow(s.datamodules, dm)
             t == gcopy_deep(s.trainers, s.fit_loops, tr)
         IN [s EXCEPT !.datamodules = d.heap, !.datamodule = d.id,
                      !.trainers = t.trainers, !.fit_loops = t.fit_loops,
                      !.trainer = t.id]
    ELSE [s EXCEPT !.datamodule = dm, !.trainer = tr]

\* InstanceDiscriminator.build
InstanceDiscriminator_build(s, dm, tr, copy) ==
    LET s1 == CdtModel_build(s, dm, tr, copy)
    IN IF s1.datamodules[dm].kind = "vision"
       THEN [s1 EXCEPT !.datamodules[dm].train_transforms = "instance_transforms"]
       ELSE s1

---------------------------------------------------------------------------
(* MomentumTeacherModel / SelfDistiller: the encoder pair.                   *)
(* A parameter has a value, the requires_grad flag, whether a gradient is    *)
(* attached to it, and the number of optimizer updates applied to it.        *)
(* Values are exact: an integer number of units of 10^-MaxSteps, so that     *)
(* MaxSteps weightings by tenths lose nothing.                               *)

Unit == 10 ^ MaxSteps

Parameter(v) ==
    [value |-> v * Unit, requires_grad |-> TRUE, grad |-> FALSE, opt_steps |-> 0]

NoEncoders == [student |-> << >>, teacher |-> << >>]

\* what the encoder factory hook returns: two encoders of the same shape,
\* freshly made modules, every parameter tracking gradients
_init_encoders ==
    [student |-> <<Parameter(1), Parameter(2)>>,
     teacher |-> <<Parameter(4), Parameter(3)>>]

\* the loop run over the student's parameters
init_encoders_student(pair) ==
    [pair EXCEPT !.student =
        [i \in DOMAIN pair.student |-> [pair.student[i] EXCEPT !.requires_grad = FALSE]]]

\* the pair as the hook returned it
init_encoders_as_made(pair) ==
    pair

\* init_encoders: requires_grad = False for p in teacher.parameters()
init_encoders(pair) ==
    [pair EXCEPT !.teacher =
        [i \in DOMAIN pair.teacher |-> [pair.teacher[i] EXCEPT !.requires_grad = FALSE]]]

\* the value None of trainer.callbacks
NoCallbacks == <<"None">>

\* a registration that replaces the list
register_callback_only(callbacks, cb) ==
    <<cb>>

\* if self.trainer.callbacks is None: [mt_cb], else: append(mt_cb)
register_callback(callbacks, cb) ==
    IF callbacks = NoCallbacks THEN <<cb>> ELSE Append(callbacks, cb)

\* a build that registers the callback with the trainer it was handed
MomentumTeacherModel_build_on_argument(s, dm, tr, copy) ==
    LET s1 == InstanceDiscriminator_build(s, dm, tr, copy)
        s2 == [s1 EXCEPT !.encoders = init_encoders(_init_encoders)]
    IN [s2 EXCEPT !.trainers[tr].callbacks =
                      register_callback(@, "MeanTeacherWeightUpdate")]

\* MomentumTeacherModel.build / SelfDistiller.build
MomentumTeacherModel_build(s, dm, tr, copy) ==
    LET s1 == InstanceDiscriminator_build(s, dm, tr, copy)
        s2 == [s1 EXCEPT !.encoders = init_encoders(_init_encoders)]
    IN [s2 EXCEPT !.trainers[s2.trainer].callbacks =
                      register_callback(@, "MeanTeacherWeightUpdate")]

\* loss.backward(): a gradient is attached to every parameter that tracks one
backward(ps) ==
    [i \in DOMAIN ps |-> IF ps[i].requires_grad
                         THEN [ps[i] EXCEPT !.grad = TRUE]
                         ELSE ps[i]]

\* optimizer.step(), n times: a parameter with no gradient attached is skipped
optimizer_step(ps, n) ==
    [i \in DOMAIN ps |-> IF ps[i].grad /\ n > 0
                         THEN [ps[i] EXCEPT !.value = @ - n * Unit,
                                            !.opt_steps = @ + n]
                         ELSE ps[i]]

\* the momentum of a step, in tenths: the float itself, the element of the
\* array at the step, or the value of the function at the step
momentum_at(schedule, step) ==
    IF schedule.kind = "float" THEN schedule.values[0]
    ELSE schedule.values[step]

\* MeanTeacherWeightUpdate.on_train_batch_end: every teacher parameter becomes
\* m * teacher + (1 - m) * student, on the data, without gradient tracking
MeanTeacherWeightUpdate(pair, m10) ==
    [pair EXCEPT !.teacher =
        [i \in DOMAIN pair.teacher |->
            [pair.teacher[i] EXCEPT
                !.value = (m10 * @ + (10 - m10) * pair.student[i].value) \div 10]]]

\* the callbacks of a trainer called in their order after a training batch
RECURSIVE on_train_batch_end(_, _, _)
on_train_batch_end(callbacks, pair, m10) ==
    IF callbacks = << >> THEN pair
    ELSE on_train_batch_end(Tail(callbacks),
                            IF Head(callbacks) = "MeanTeacherWeightUpdate"
                            THEN MeanTeacherWeightUpdate(pair, m10)
                            ELSE pair,
                            m10)

---------------------------------------------------------------------------
(* InstanceDiscriminator._get_positives / _get_positive_views.               *)
(* A tensor is the sequence of its rows along dim 0 (the batch dimension).   *)

Pixels == 0..1

\* tensors of a batch of n samples
TensorsOf(n) == [1..n -> Pixels]

Tensors == UNION {TensorsOf(n) : n \in 1..MaxBatch}

Tensor(data) ==
    [type |-> "Tensor", data |-> data, global_crops |-> << >>, local_crops |-> << >>]

\* MultiCropOutput(global_crops=..., local_crops=...)
MultiCropOutput(global_crops, local_crops) ==
    [type |-> "MultiCropOutput", data |-> << >>,
     global_crops |-> global_crops, local_crops |-> local_crops]

\* a plain list, one of the types _get_positives does not accept
PlainList(data) ==
    [type |-> "list", data |-> data, global_crops |-> << >>, local_crops |-> << >>]

\* two crops of a batch of MaxBatch samples
Crops ==
    {[i \in 1..MaxBatch |-> 0], [i \in 1..MaxBatch |-> i % 2]}

\* the multi-cropped inputs: at least two global crops, any number of local
\* crops, every crop a tensor of the batch
MultiCropOutputs ==
    UNION {{MultiCropOutput(g, l) :
               g \in [1..ng -> Crops], l \in [1..nl -> Crops]} :
           ng \in 2..MaxGlobalCrops, nl \in 0..MaxLocalCrops}

\* torch.cat([a, b], dim=0)
cat0(a, b) == a \o b

\* Tensor.chunk(2, dim=0): chunks of ceil(len / 2) rows
chunk2(x) ==
    LET size == (Len(x) + 1) \div 2
    IN IF Len(x) > size
       THEN <<SubSeq(x, 1, size), SubSeq(x, size + 1, Len(x))>>
       ELSE <<x>>

\* a batch transform: keeps the shape, augments each row by its position
BatchTransform(x) ==
    [i \in DOMAIN x |-> x[i] + 2 * i]

Returned(v) == [raised |-> "None", value |-> v]

Raised(e) == [raised |-> e, value |-> [type |-> "None", data |-> << >>,
                                       global_crops |-> << >>, local_crops |-> << >>]]

\* view1, view2 = ...: unpacking anything but two values raises
unpack2(views) ==
    IF Len(views) = 2
    THEN Returned(MultiCropOutput(<<views[1], views[2]>>, << >>))
    ELSE Raised("ValueError")

\* the input handed back when it is of neither type
get_positives_no_raise(x, bt) ==
    IF x.type = "Tensor"
    THEN IF bt = "None"
         THEN Returned(MultiCropOutput(<<x.data, x.data>>, << >>))
         ELSE unpack2(chunk2(BatchTransform(cat0(x.data, x.data))))
    ELSE IF x.type = "MultiCropOutput"
    THEN IF bt = "None"
         THEN Returned(x)
         ELSE Returned([x EXCEPT
                 !.global_crops = [i \in DOMAIN @ |-> BatchTransform(@[i])],
                 !.local_crops = [i \in DOMAIN @ |-> BatchTransform(@[i])]])
    ELSE Returned(x)

\* the transform applied to the tensor itself, not to its duplicate
get_positives_no_cat(x, bt) ==
    IF x.type = "Tensor"
    THEN IF bt = "None"
         THEN Returned(MultiCropOutput(<<x.data, x.data>>, << >>))
         ELSE unpack2(chunk2(BatchTransform(x.data)))
    ELSE IF x.type = "MultiCropOutput"
    THEN IF bt = "None"
         THEN Returned(x)
         ELSE Returned([x EXCEPT
                 !.global_crops = [i \in DOMAIN @ |-> BatchTransform(@[i])],
                 !.local_crops = [i \in DOMAIN @ |-> BatchTransform(@[i])]])
    ELSE Raised("TypeError")

\* the crops of a multi-cropped input transformed in one call, as the rows
\* of one batch
get_positives_joint(x, bt) ==
    IF x.type = "Tensor"
    THEN IF bt = "None"
         THEN Returned(MultiCropOutput(<<x.data, x.data>>, << >>))
         ELSE unpack2(chunk2(BatchTransform(cat0(x.data, x.data))))
    ELSE IF x.type = "MultiCropOutput"
    THEN IF bt = "None"
         THEN Returned(x)
         ELSE Returned([x EXCEPT
                 !.global_crops = [i \in DOMAIN @ |->
                     [k \in DOMAIN @[i] |-> @[i][k] + 2 * ((i - 1) * Len(@[i]) + k)]],
                 !.local_crops = [i \in DOMAIN @ |-> BatchTransform(@[i])]])
    ELSE Raised("TypeError")

\* InstanceDiscriminator._get_positives(batch) with self.batch_transforms = bt
get_positives(x, bt) ==
    IF x.type = "Tensor"
    THEN IF bt = "None"
         THEN Returned(MultiCropOutput(<<x.data, x.data>>, << >>))
         ELSE unpack2(chunk2(BatchTransform(cat0(x.data, x.data))))
    ELSE IF x.type = "MultiCropOutput"
    THEN IF bt = "None"
         THEN Returned(x)
         ELSE Returned([x EXCEPT
                 !.global_crops = [i \in DOMAIN @ |-> BatchTransform(@[i])],
                 !.local_crops = [i \in DOMAIN @ |-> BatchTransform(@[i])]])
    ELSE Raised("TypeError")

---------------------------------------------------------------------------
(* InstanceDiscriminator.global_crop_size / local_crop_size.                 *)
(* A size is an int or a pair (height, width); a scale is a float or a pair  *)
(* of floats, kept in hundredths.                                            *)

Scalar(v) == [kind |-> "int", v |-> <<v>>]

Pair(h, w) == [kind |-> "tuple", v |-> <<h, w>>]

\* the value None of _global_crop_size
NoSize == [kind |-> "None", v |-> << >>]

\* the default of local_crop_size, 0.43
DefaultLocalCropSize == 43

GlobalSizes == {7, 32, 224}

LocalScales == {25, DefaultLocalCropSize, 50}

\* the read of a property: a value or an exception
Value(v) == [raised |-> "None", value |-> v]

Error(e) == [raised |-> e, value |-> NoSize]

\* global_crop_size: the data module's dims[1:] unless a size is configured
global_crop_size(dm, size) ==
    IF dm.kind # "vision" THEN Error("AttributeError")
    ELSE IF size = NoSize THEN Value(Pair(dims[2], dims[3]))
    ELSE Value(size)

\* np.multiply(a, b): elementwise, an int or float broadcast over a pair
np_multiply(a, b) ==
    IF a.kind = "int" /\ b.kind = "int"
    THEN Scalar(a.v[1] * b.v[1])
    ELSE LET x == IF a.kind = "int" THEN <<a.v[1], a.v[1]>> ELSE a.v
             y == IF b.kind = "int" THEN <<b.v[1], b.v[1]>> ELSE b.v
         IN Pair(x[1] * y[1], x[2] * y[2])

\* a conversion to the nearest integer (a half to the even one)
astype_nearest(a) ==
    [a EXCEPT !.v = [i \in DOMAIN @ |->
        LET q == @[i] \div 100
            r == @[i] % 100
        IN IF r > 50 \/ (r = 50 /\ q % 2 = 1) THEN q + 1 ELSE q]]

\* .astype(np.int64) of a product of hundredths: the fraction is cut off
astype_int64(a) ==
    [a EXCEPT !.v = [i \in DOMAIN @ |-> @[i] \div 100]]

\* local_crop_size: np.multiply(self.global_crop_size, self._local_crop_size)
\* .astype(np.int64), as an int or a tuple
local_crop_size(dm, size, scale) ==
    LET g == global_crop_size(dm, size)
    IN IF g.raised # "None" THEN g
       ELSE Value(astype_int64(np_multiply(g.value, scale)))

---------------------------------------------------------------------------
(* DummyVisionDataModule._get_splits and CdtDataset.random_split.            *)
(* A dataset is the sequence of its sample indices; proportions are kept in  *)
(* quarters.                                                                 *)

PropUnit == 4

\* the default of DummyVisionDataModule.seed
DefaultSeed == 8

\* seed=None
NoSeed == 0 - 1

RECURSIVE Sum(_)
Sum(s) == IF s = << >> THEN 0 ELSE Head(s) + Sum(Tail(s))

\* the orders a generator can put n samples in
Perms(n) ==
    {p \in [1..n -> 1..n] : \A i, j \in 1..n : p[i] = p[j] => i = j}

\* the order a generator seeded with seed gives
seeded_perm(seed, n) ==
    [i \in 1..n |-> ((i + seed - 1) % n) + 1]

\* round(prop * len): to the nearest integer, a half to the even one
round(num, den) ==
    LET q == num \div den
        r == num % den
    IN IF 2 * r > den \/ (2 * r = den /\ q % 2 = 1) THEN q + 1 ELSE q

\* the size of each subset: one per proportion, and the complement when the
\* proportions sum to less than 1
section_sizes(n, props) ==
    LET s == [i \in DOMAIN props |-> round(props[i] * n, PropUnit)]
    IN IF Sum(props) < PropUnit THEN Append(s, n - Sum(s)) ELSE s

\* consecutive slices of an order, of the given sizes
RECURSIVE slices(_, _)
slices(order, sizes) ==
    IF sizes = << >> THEN << >>
    ELSE <<SubSeq(order, 1, Head(sizes))>>
         \o slices(SubSeq(order, Head(sizes) + 1, Len(order)), Tail(sizes))

Subsets(s) == [raised |-> "None", subsets |-> s]

SplitError(e) == [raised |-> e, subsets |-> << >>]

\* CdtDataset.random_split(props, seed=seed): what it can return. Without a
\* seed the order comes from the process-wide generator, whose state is
\* whatever earlier draws left.
random_split(n, props, seed) ==
    IF Sum(props) > PropUnit \/ \E i \in DOMAIN props : props[i] < 0
    THEN {SplitError("ValueError")}
    ELSE IF Sum(section_sizes(n, props)) # n
    THEN {SplitError("ValueError")}
    ELSE {Subsets(slices(order, section_sizes(n, props))) :
             order \in IF seed = NoSeed THEN Perms(n) ELSE {seeded_perm(seed, n)}}

NoSplits == [train |-> << >>, val |-> << >>, test |-> << >>]

\* val_data, test_data, train_data = ...; TrainValTestSplit(train, val, test)
TrainValTestSplit(r) ==
    IF r.raised # "None" THEN [raised |-> r.raised, splits |-> NoSplits]
    ELSE IF Len(r.subsets) # 3 THEN [raised |-> "ValueError", splits |-> NoSplits]
    ELSE [raised |-> "None",
          splits |-> [train |-> r.subsets[3], val |-> r.subsets[1],
                      test |-> r.subsets[2]]]

\* DummyVisionDataModule._get_splits: what it can return
get_splits(dm) ==
    {TrainValTestSplit(r) :
        r \in random_split(dm.num_samples, <<dm.val_prop, dm.test_prop>>, NoSeed)}

\* DummyVisionDataModule(num_samples=..., val_prop=..., test_prop=..., seed=...)
DummyVisionDataModule(n, val_prop, test_prop, seed) ==
    [num_samples |-> n, val_prop |-> val_prop, test_prop |-> test_prop,
     seed |-> seed, prepared |-> FALSE, is_set_up |-> FALSE, setups |-> 0,
     raised |-> "None", splits |-> NoSplits, first |-> NoSplits]

\* setup(): the splits are made on the first call and kept afterwards
setup(dm, r) ==
    IF dm.is_set_up THEN [dm EXCEPT !.setups = @ + 1, !.raised = "None"]
    ELSE IF r.raised # "None"
    THEN [dm EXCEPT !.setups = @ + 1, !.raised = r.raised]
    ELSE [dm EXCEPT !.setups = @ + 1, !.raised = "None", !.is_set_up = TRUE,
                    !.splits = r.splits, !.first = r.splits]

---------------------------------------------------------------------------
(* CdtDataset: x, the targets y and the sensitive attributes s (None or a    *)
(* tensor), and the cached dimensions and cardinalities. A tensor is its     *)
(* shape and its elements; x is the sequence of the samples.                 *)

\* the value None of y or s
NoTensor == [is_none |-> TRUE, shape |-> << >>, data |-> << >>]

\* torch.as_tensor of a one-dimensional array
torch_as_tensor(data) == [is_none |-> FALSE, shape |-> <<Len(data)>>, data |-> data]

\* Tensor.squeeze(): every dimension of size one is removed
squeeze(t) == [t EXCEPT !.shape = SelectSeq(@, LAMBDA d : d # 1)]

\* torch.cat([a, b], dim=0) of tensors of at most one dimension: a tensor
\* without dimensions cannot be concatenated
torch_cat(a, b) ==
    IF a.shape = << >> \/ b.shape = << >>
    THEN [raised |-> "RuntimeError", value |-> NoTensor]
    ELSE [raised |-> "None",
          value |-> [is_none |-> FALSE, shape |-> <<a.shape[1] + b.shape[1]>>,
                     data |-> a.data \o b.data]]

\* a cached field: None until computed
Unset == [set |-> FALSE, v |-> << >>]

Cached(v) == [set |-> TRUE, v |-> v]

\* CdtDataset.__init__(x=x, y=y, s=s)
CdtDataset(x, y, s) ==
    [x |-> x,
     y |-> IF y.is_none THEN y ELSE squeeze(y),
     s |-> IF s.is_none THEN s ELSE squeeze(s),
     _dim_s |-> Unset, _dim_y |-> Unset, _card_y |-> Unset, _card_s |-> Unset]

\* CdtDataset.__len__
len(ds) == Len(ds.x)

\* CdtDataset.cat(other, inplace=inplace, deep=False) on the dataset i of the
\* heap with other = j. The superset is self or a shallow copy of it; its x,
\* then its s, then its y are replaced; an exception of torch.cat leaves what
\* was assigned before it, and a copy that is not returned is dropped.
cat(heap, i, j, inplace) ==
    LET c == IF inplace THEN gcopy_alias(heap, i) ELSE gcopy_shallow(heap, i)
        superset == c.id
        other == c.heap[j]
        h1 == [c.heap EXCEPT ![superset].x = @ \o other.x]
        ss == IF ~h1[superset].s.is_none /\ ~other.s.is_none
              THEN torch_cat(h1[superset].s, other.s)
              ELSE [raised |-> "None", value |-> h1[superset].s]
        h2 == [h1 EXCEPT ![superset].s = ss.value]
        ys == IF ~h2[superset].y.is_none /\ ~other.y.is_none
              THEN torch_cat(h2[superset].y, other.y)
              ELSE [raised |-> "None", value |-> h2[superset].y]
        h3 == [h2 EXCEPT ![superset].y = ys.value]
    IN IF ss.raised # "None"
       THEN [heap |-> IF inplace THEN h1 ELSE heap, returned |-> None,
             raised |-> ss.raised]
       ELSE IF ys.raised # "None"
       THEN [heap |-> IF inplace THEN h2 ELSE heap, returned |-> None,
             raised |-> ys.raised]
       ELSE [heap |-> h3, returned |-> IF inplace THEN None ELSE superset,
             raised |-> "None"]

\* the read of a property of a dataset: the dataset after it, and the value
\* returned or the exception raised
Read(ds, raised, value) == [ds |-> ds, raised |-> raised, value |-> value]

\* a dim_s that gives the size of a scalar attribute when there is no s
dim_s_default(ds) ==
    IF ds.s.is_none THEN Read(ds, "None", Cached(<<1>>))
    ELSE LET d == IF ds._dim_s.set THEN ds
                  ELSE [ds EXCEPT !._dim_s =
                           Cached(IF Len(ds.s.shape) = 1 THEN <<1>>
                                  ELSE SubSeq(ds.s.shape, 2, Len(ds.s.shape)))]
         IN Read(d, "None", d._dim_s)

\* CdtDataset.dim_s: torch.Size((1,)) for a one-dimensional s, s.shape[1:]
\* otherwise
dim_s(ds) ==
    IF ds.s.is_none THEN Read(ds, "AttributeError", Unset)
    ELSE LET d == IF ds._dim_s.set THEN ds
                  ELSE [ds EXCEPT !._dim_s =
                           Cached(IF Len(ds.s.shape) = 1 THEN <<1>>
                                  ELSE SubSeq(ds.s.shape, 2, Len(ds.s.shape)))]
         IN Read(d, "None", d._dim_s)

\* CdtDataset.dim_y
dim_y(ds) ==
    IF ds.y.is_none THEN Read(ds, "AttributeError", Unset)
    ELSE LET d == IF ds._dim_y.set THEN ds
                  ELSE [ds EXCEPT !._dim_y =
                           Cached(IF Len(ds.y.shape) = 1 THEN <<1>>
                                  ELSE SubSeq(ds.y.shape, 2, Len(ds.y.shape)))]
         IN Read(d, "None", d._dim_y)

\* len(t.unique())
unique_len(t) == Cardinality({t.data[k] : k \in DOMAIN t.data})

\* CdtDataset.card_y
card_y(ds) ==
    IF ds.y.is_none THEN Read(ds, "AttributeError", Unset)
    ELSE LET d == IF ds._card_y.set THEN ds
                  ELSE [ds EXCEPT !._card_y = Cached(<<unique_len(ds.y)>>)]
         IN Read(d, "None", d._card_y)

\* CdtDataset.card_s
card_s(ds) ==
    IF ds.s.is_none THEN Read(ds, "AttributeError", Unset)
    ELSE LET d == IF ds._card_s.set THEN ds
                  ELSE [ds EXCEPT !._card_s = Cached(<<unique_len(ds.s)>>)]
         IN Read(d, "None", d._card_s)

Properties == {"dim_s", "dim_y", "card_y", "card_s"}

\* getattr(ds, prop)
getattr(ds, prop) ==
    CASE prop = "dim_s" -> dim_s(ds)
      [] prop = "dim_y" -> dim_y(ds)
      [] prop = "card_y" -> card_y(ds)
      [] prop = "card_s" -> card_s(ds)

---------------------------------------------------------------------------
(* CreditDataModule and the tabular data module it derives from.            *)
(* Proportions are kept in hundredths; a batch is the shape of its x, s, y. *)

\* the batch size of the data module test
BATCHSIZE == 4

\* TabularDataModule.__init__: the configuration kept, nothing prepared
TabularDataModule(batch_size, val_prop, test_prop, seed, stratified_sampling, training_mode) ==
    [batch_size |-> batch_size, val_prop |-> val_prop, test_prop |-> test_prop,
     seed |-> seed, stratified_sampling |-> stratified_sampling,
     training_mode |-> training_mode,
     prepared |-> FALSE, is_set_up |-> FALSE, setups |-> 0,
     rows |-> 0, features |-> 0, train |-> 0, val |-> 0, test |-> 0]

\* a constructor that leaves the batch size of the base class at its default
CreditDataModule_default_batch(batch_size, stratified_sampling, disc_feats_only) ==
    [base |-> TabularDataModule(100, 20, 20, 0, stratified_sampling, "epoch"),
     sens_feat |-> "Sex", disc_feats_only |-> disc_feats_only]

\* CreditDataModule(batch_size=..., stratified_sampling=...,
\* disc_feats_only=...), the other arguments at their defaults
CreditDataModule(batch_size, stratified_sampling, disc_feats_only) ==
    [base |-> TabularDataModule(batch_size, 20, 20, 0, stratified_sampling, "epoch"),
     sens_feat |-> "Sex", disc_feats_only |-> disc_feats_only]

\* em.credit(split=..., discrete_only=...): a table of rows, fewer features
\* when only the discrete ones are kept
em_dataset(dm, rows) ==
    [rows |-> rows, features |-> IF dm.disc_feats_only THEN 2 ELSE 3]

\* prepare_data(): the table is loaded, once
prepare_data(dm, rows) ==
    IF dm.base.prepared THEN dm
    ELSE [dm EXCEPT !.base.prepared = TRUE,
                    !.base.rows = em_dataset(dm, rows).rows,
                    !.base.features = em_dataset(dm, rows).features]

\* setup() of a tabular data module: val and test get their proportions of
\* the rows, train the remainder; a second call changes nothing
tabular_setup(dm) ==
    IF dm.base.is_set_up THEN [dm EXCEPT !.base.setups = @ + 1]
    ELSE LET v == round(dm.base.val_prop * dm.base.rows, 100)
             e == round(dm.base.test_prop * dm.base.rows, 100)
         IN [dm EXCEPT !.base.is_set_up = TRUE, !.base.setups = @ + 1,
                       !.base.val = v, !.base.test = e,
                       !.base.train = dm.base.rows - v - e]

\* dm.size(): the shape of one sample
size(dm) == <<dm.base.features>>

\* next(iter(dm.train_dataloader())): batches of the configured batch size
\* drawn from the train split, with stratified sampling on and off; a split
\* smaller than a batch gives one batch of what it has
train_dataloader(dm) ==
    LET n == IF dm.base.train >= dm.base.batch_size THEN dm.base.batch_size
             ELSE dm.base.train
    IN [x |-> <<n>> \o size(dm), s |-> <<n>>, y |-> <<n>>]

---------------------------------------------------------------------------
(* The lazy accessors *)

\* a nested trainer that keeps the callbacks of the trainer it is copied from
ft_trainer_keep_callbacks(s) ==
    IF s._finetuner = None
    THEN LET c == gcopy_deep(s.trainers, s.fit_loops, s.trainer)
             fl == c.trainers[c.id].fit_loop
         IN [s EXCEPT
               !.trainers = [c.trainers EXCEPT
                   ![c.id].num_sanity_val_batches = 0,
                   ![c.id].logger = IF lib = "conduit" THEN "None" ELSE @],
               !.fit_loops = [c.fit_loops EXCEPT
                   ![fl].max_epochs = eval_epochs,
                   ![fl].max_steps = None],
               !._finetuner = c.id,
               !.constructed.trainers = @ + 1]
    ELSE s

\* SelfSupervisedModel.ft_trainer / eval_trainer
ft_trainer(s) ==
    IF s._finetuner = None
    THEN LET c == gcopy_deep(s.trainers, s.fit_loops, s.trainer)
             fl == c.trainers[c.id].fit_loop
         IN [s EXCEPT
               !.trainers = [c.trainers EXCEPT
                   ![c.id].num_sanity_val_batches = 0,
                   ![c.id].logger = IF lib = "conduit" THEN "None" ELSE @,
                   ![c.id].callbacks = <<"PostHocProgressBar">>],
               !.fit_loops = [c.fit_loops EXCEPT
                   ![fl].max_epochs = eval_epochs,
                   ![fl].max_steps = None],
               !._finetuner = c.id,
               !.constructed.trainers = @ + 1]
    ELSE s

\* what the classifier factory hook returns, once built: an unfitted
\* classifier on the shared feature extractor, bound to the nested trainer
ERMClassifier(s) ==
    [trainer |-> s._finetuner, datamodule |-> s.datamodule,
     frozen |-> hook_freezes, epochs |-> 0, fitted |-> FALSE]

\* a factory that hands out the classifier it made before
init_ft_clf_cached(s) ==
    LET s1 == ft_trainer(s)
    IN IF s1.classifiers # << >>
       THEN [s1 EXCEPT !._ft_clf = Len(s1.classifiers)]
       ELSE [s1 EXCEPT !.classifiers = Append(@, ERMClassifier(s1)),
                       !._ft_clf = Len(s1.classifiers) + 1,
                       !.constructed.classifiers = @ + 1]

\* a classifier built with the outer trainer, the nested one left alone
init_ft_clf_outer_trainer(s) ==
    [s EXCEPT !.classifiers = Append(@, [ERMClassifier(s) EXCEPT !.trainer = s.trainer]),
              !._ft_clf = Len(s.classifiers) + 1,
              !.constructed.classifiers = @ + 1]

\* _init_ft_clf() followed by clf.build(datamodule=self.datamodule,
\* trainer=self.ft_trainer, copy=False)
init_ft_clf(s) ==
    LET s1 == ft_trainer(s)
    IN [s1 EXCEPT !.classifiers = Append(@, ERMClassifier(s1)),
                  !._ft_clf = Len(s1.classifiers) + 1,
                  !.constructed.classifiers = @ + 1]

\* an accessor without its None test
ft_clf_always(s) ==
    init_ft_clf(s)

\* SelfSupervisedModel.ft_clf / eval_clf
ft_clf(s) ==
    IF s._ft_clf = None THEN init_ft_clf(s) ELSE s

---------------------------------------------------------------------------
(* Trainer.fit as the hooks use it: the fit loop runs epochs from its own   *)
(* current_epoch until its budget is reached; the counters are the          *)
(* trainer's and are not reset by a call of fit. One optimizer step stands  *)
(* for an epoch's steps.                                                     *)

FitLoop_done(l) ==
    \/ l.current_epoch >= l.max_epochs
    \/ (l.max_steps # None /\ l.global_step >= l.max_steps)

RECURSIVE FitLoop_advance(_)
FitLoop_advance(l) ==
    IF FitLoop_done(l) THEN l
    ELSE FitLoop_advance([l EXCEPT !.current_epoch = @ + 1, !.global_step = @ + 1])

\* a fit that has nothing left to run is skipped; engines before 1.6 step
\* current_epoch back by one when a fit that ran ends (pl_decrement)
FitLoop_run(l) ==
    IF FitLoop_done(l) THEN l
    ELSE LET e == FitLoop_advance(l)
         IN IF pl_decrement /\ e.current_epoch > 0
            THEN [e EXCEPT !.current_epoch = @ - 1]
            ELSE e

\* the classifier's training steps on the encoder it was given, when that
\* encoder is not frozen: backward, then the classifier's optimizer
nested_steps(pair, n) ==
    IF features = "teacher"
    THEN [pair EXCEPT !.teacher = optimizer_step(backward(@), n)]
    ELSE [pair EXCEPT !.student = optimizer_step(backward(@), n)]

\* the batches of a fit: each is the classifier's step, when its encoder is
\* not frozen, and then the callbacks of the trainer that runs the fit
RECURSIVE nested_batches(_, _, _, _)
nested_batches(pair, callbacks, frozen, n) ==
    IF n <= 0 THEN pair
    ELSE nested_batches(
             on_train_batch_end(callbacks,
                                IF frozen THEN pair ELSE nested_steps(pair, 1),
                                momentum_at(momentum_schedule, 0)),
             callbacks, frozen, n - 1)

\* self.ft_trainer.fit(self.ft_clf, train_dataloaders=...). A fit that raises
\* leaves the counters as they were.
Trainer_fit(s, tr, clf, fail) ==
    LET fl == s.trainers[tr].fit_loop
        l0 == s.fit_loops[fl]
        l1 == IF fail THEN l0 ELSE FitLoop_run(l0)
        n  == l1.global_step - l0.global_step
    IN [s EXCEPT
          !.fit_loops[fl] = l1,
          !.trainers[tr].model = clf,
          !.classifiers[clf].epochs = @ + n,
          !.classifiers[clf].fitted = TRUE,
          !.student = IF n > 0 /\ ~s.classifiers[clf].frozen
                      THEN [@ EXCEPT !.grad = "nested", !.tuned = TRUE]
                      ELSE @,
          !.encoders = nested_batches(@, s.trainers[tr].callbacks,
                                      s.classifiers[clf].frozen, n)]

---------------------------------------------------------------------------
(* _finetune / _eval_routine *)

\* the overrides without the batch size
EvalDataModule_keep_batch(heap, cp) ==
    LET a == [heap EXCEPT ![cp].stratified_sampling = FALSE,
                          ![cp].training_mode = "epoch"]
    IN IF a[cp].kind = "vision"
       THEN [a EXCEPT ![cp].train_transforms = "ft_transform"]
       ELSE a

\* the evaluation data module: the copy with its overrides
EvalDataModule(heap, cp) ==
    LET a == [heap EXCEPT ![cp].stratified_sampling = FALSE,
                          ![cp].training_mode = "epoch"]
        b == IF a[cp].kind = "vision"
             THEN [a EXCEPT ![cp].train_transforms = "ft_transform"]
             ELSE a
    IN IF eval_batch_size # None
       THEN [b EXCEPT ![cp].train_batch_size = eval_batch_size]
       ELSE b

\* the local dm_cp goes out of scope when _finetune returns
release(heap, cp, bound) ==
    IF cp = Len(heap) /\ cp # bound /\ cp # user_dm
    THEN SubSeq(heap, 1, Len(heap) - 1)
    ELSE heap

\* a _finetune that catches what the fit raises and fits once more
finetune_retry(s, fail) ==
    LET c  == gcopy_shallow(s.datamodules, s.datamodule)
        s0 == [s EXCEPT !.datamodules = EvalDataModule(c.heap, c.id)]
        s1 == ft_trainer(s0)
        s2 == ft_clf(s1)
        s3 == Trainer_fit(s2, s2._finetuner, s2._ft_clf, fail)
        s4 == IF fail THEN Trainer_fit(s3, s3._finetuner, s3._ft_clf, FALSE) ELSE s3
        l0 == s2.fit_loops[s2.trainers[s2._finetuner].fit_loop]
        l4 == s4.fit_loops[s4.trainers[s4._finetuner].fit_loop]
    IN [state |-> [s4 EXCEPT !.datamodules = release(@, c.id, s.datamodule)],
        call  |-> [trainer |-> s2._finetuner,
                   clf |-> s2._ft_clf,
                   loader |-> s0.datamodules[c.id],
                   start_epoch |-> l0.current_epoch,
                   epochs_run |-> l4.global_step - l0.global_step,
                   clf_epochs_before |-> s2.classifiers[s2._ft_clf].epochs,
                   clf_fitted_before |-> s2.classifiers[s2._ft_clf].fitted,
                   completed |-> TRUE,
                   fit_raised |-> fail,
                   fits |-> IF fail THEN 2 ELSE 1,
                   raised |-> FALSE]]

\* a _finetune that drops the classifier when the fit raises
finetune_clear_on_raise(s, fail) ==
    LET c  == gcopy_shallow(s.datamodules, s.datamodule)
        s0 == [s EXCEPT !.datamodules = EvalDataModule(c.heap, c.id)]
        s1 == ft_trainer(s0)
        s2 == ft_clf(s1)
        s3 == Trainer_fit(s2, s2._finetuner, s2._ft_clf, fail)
        s4 == IF fail THEN [s3 EXCEPT !._ft_clf = None] ELSE s3
        l0 == s2.fit_loops[s2.trainers[s2._finetuner].fit_loop]
        l3 == s3.fit_loops[s3.trainers[s3._finetuner].fit_loop]
    IN [state |-> [s4 EXCEPT !.datamodules = release(@, c.id, s.datamodule)],
        call  |-> [trainer |-> s2._finetuner,
                   clf |-> s2._ft_clf,
                   loader |-> s0.datamodules[c.id],
                   start_epoch |-> l0.current_epoch,
                   epochs_run |-> l3.global_step - l0.global_step,
                   clf_epochs_before |-> s2.classifiers[s2._ft_clf].epochs,
                   clf_fitted_before |-> s2.classifiers[s2._ft_clf].fitted,
                   completed |-> ~fail,
                   fit_raised |-> fail,
                   fits |-> 1,
                   raised |-> fail]]

\* returns the state after the call and the arguments the fit was called with.
\* fit is called once, outside any try block: what it raises (fit_raised)
\* leaves _finetune and on_inference_start (raised).
finetune(s, fail) ==
    LET c  == gcopy_shallow(s.datamodules, s.datamodule)
        s0 == [s EXCEPT !.datamodules = EvalDataModule(c.heap, c.id)]
        s1 == ft_trainer(s0)
        s2 == ft_clf(s1)
        s3 == Trainer_fit(s2, s2._finetuner, s2._ft_clf, fail)
        l0 == s2.fit_loops[s2.trainers[s2._finetuner].fit_loop]
        l3 == s3.fit_loops[s3.trainers[s3._finetuner].fit_loop]
    IN [state |-> [s3 EXCEPT !.datamodules = release(@, c.id, s.datamodule)],
        call  |-> [trainer |-> s2._finetuner,
                   clf |-> s2._ft_clf,
                   loader |-> s0.datamodules[c.id],
                   start_epoch |-> l0.current_epoch,
                   epochs_run |-> l3.global_step - l0.global_step,
                   clf_epochs_before |-> s2.classifiers[s2._ft_clf].epochs,
                   clf_fitted_before |-> s2.classifiers[s2._ft_clf].fitted,
                   completed |-> ~fail,
                   fit_raised |-> fail,
                   fits |-> 1,
                   raised |-> fail]]

---------------------------------------------------------------------------
(* inference_epoch_end *)

\* validate and test taken for each other
inference_metrics_swapped(s, st) ==
    [by |-> IF lib = "conduit" THEN s._finetuner ELSE None,
     clf |-> s._ft_clf,
     entry |-> IF st = "validate" THEN "test" ELSE "validate",
     clf_epochs |-> s.classifiers[s._ft_clf].epochs,
     clf_fitted |-> s.classifiers[s._ft_clf].fitted]

\* conduit: the nested trainer validates or tests the classifier;
\* bolts: the classifier aggregates the outputs of the outer loop's steps.
inference_metrics(s, st) ==
    IF lib = "conduit"
    THEN [by |-> s._finetuner, clf |-> s._ft_clf,
          entry |-> IF st = "validate" THEN "validate" ELSE "test",
          clf_epochs |-> s.classifiers[s._ft_clf].epochs,
          clf_fitted |-> s.classifiers[s._ft_clf].fitted]
    ELSE [by |-> None, clf |-> s._ft_clf,
          entry |-> st,
          clf_epochs |-> s.classifiers[s._ft_clf].epochs,
          clf_fitted |-> s.classifiers[s._ft_clf].fitted]

\* the reference kept after the round
inference_epoch_end_keep(s, fail) ==
    ft_clf(IF lib = "conduit" THEN ft_trainer(s) ELSE s)

\* an inference_epoch_end that drops the nested trainer with the classifier
inference_epoch_end_drop_trainer(s, fail) ==
    LET s1 == IF lib = "conduit" THEN ft_trainer(s) ELSE s
        s2 == ft_clf(s1)
    IN IF fail THEN s2 ELSE [s2 EXCEPT !._ft_clf = None, !._finetuner = None]

\* the state after the call: the accessors, the inference, then the reference
\* is dropped unless the inference raised
inference_epoch_end(s, fail) ==
    LET s1 == IF lib = "conduit" THEN ft_trainer(s) ELSE s
        s2 == ft_clf(s1)
    IN IF fail THEN s2 ELSE [s2 EXCEPT !._ft_clf = None]

---------------------------------------------------------------------------
(* Initial state: the model constructed, a data module and a trainer made by *)
(* the user, nothing built.                                                  *)

NoCall ==
    [trainer |-> None, clf |-> None,
     loader |-> [kind |-> "none", stratified_sampling |-> FALSE,
                 training_mode |-> "epoch", train_batch_size |-> 0,
                 train_transforms |-> "None", data |-> "none"],
     start_epoch |-> 0, epochs_run |-> 0, clf_epochs_before |-> 0,
     clf_fitted_before |-> FALSE,
     completed |-> FALSE, fit_raised |-> FALSE, fits |-> 0, raised |-> FALSE]

\* a model without a teacher has no momentum schedule
NoSchedule == [kind |-> "none", values |-> [step \in 0..0 |-> 0]]

\* the three shapes of a schedule, momenta in tenths: a float, an array with
\* one element per training step, a function of the step
Schedules ==
    {[kind |-> "float", values |-> [step \in 0..0 |-> 9]],
     [kind |-> "array", values |-> [step \in 0..(MaxSteps - 1) |->
                                        IF step = 0 THEN 9 ELSE 5]],
     [kind |-> "callable", values |-> [step \in 0..MaxSteps |->
                                        IF step < 9 THEN 9 - step ELSE 0]]}

\* _get_positives not called
NotCalled == Raised("None")

\* no training batch at hand
NoViews ==
    /\ batch_x = PlainList(<< >>)
    /\ batch_transforms = "None"
    /\ positives = NotCalled

\* local_crop_size not read
NotRead == Error("None")

\* the crop settings of a model made with the defaults
NoCrops ==
    /\ dims = <<3, 32, 32>>
    /\ _global_crop_size = NoSize
    /\ _local_crop_size = Scalar(DefaultLocalCropSize)
    /\ crop_size = NotRead

\* cat not called
NoCatCall ==
    [op |-> "none", inplace |-> FALSE, self |-> None, other |-> None,
     before |-> << >>, returned |-> None, raised |-> "None", count |-> 0]

\* no property read
NotAccessed == [prop |-> "none", ds |-> None, raised |-> "None", value |-> Unset]

\* train_dataloader() not called
NoBatch == [x |-> << >>, s |-> << >>, y |-> << >>]

\* no tabular data module made
NoTabular ==
    /\ tabular_dm = [made |-> FALSE]
    /\ first_batch = NoBatch

\* no dataset made
NoData ==
    /\ datasets = << >>
    /\ cat_call = NoCatCall
    /\ access = NotAccessed
    /\ NoTabular

NoResults ==
    [by |-> None, clf |-> None, entry |-> "none", clf_epochs |-> 0,
     clf_fitted |-> FALSE]

Init ==
    /\ lib \in {"conduit", "bolts"}
    /\ pl_decrement \in BOOLEAN
    /\ hook_freezes \in BOOLEAN
    /\ \E kind \in {"vision", "tabular"}, strat \in BOOLEAN :
         datamodules = << [kind |-> kind,
                           stratified_sampling |-> strat,
                           training_mode |-> IF strat THEN "step" ELSE "epoch",
                           train_batch_size |-> 3,
                           train_transforms |-> "default",
                           data |-> "dataset"] >>
    /\ trainers = << [fit_loop |-> 1, num_sanity_val_batches |-> 2,
                      logger |-> "logger",
                      callbacks |-> <<"ModelCheckpoint">>,
                      model |-> None] >>
    /\ fit_loops = << [max_epochs |-> OuterMaxEpochs, max_steps |-> OuterMaxEpochs,
                       current_epoch |-> 0, global_step |-> 0] >>
    /\ classifiers = << >>
    /\ datamodule = None
    /\ trainer = None
    /\ _finetuner = None
    /\ _ft_clf = None
    /\ eval_batch_size \in {None, 2}
    /\ eval_epochs \in {1, EvalEpochs}
    /\ student = [grad |-> "none", tuned |-> FALSE]
    /\ phase = "Idle"
    /\ stage = "none"
    /\ fit_call = NoCall
    /\ results = NoResults
    /\ rounds = << >>
    /\ constructed = [classifiers |-> 0, trainers |-> 0]
    /\ momentum_schedule = NoSchedule
    /\ features = "student"
    /\ encoders = NoEncoders
    /\ NoViews
    /\ NoCrops
    /\ split_modules = << >>
    /\ NoData

---------------------------------------------------------------------------
(* Actions: one per call *)

Frozen == UNCHANGED <<lib, pl_decrement, hook_freezes, eval_batch_size, eval_epochs,
                      momentum_schedule, features, batch_x, batch_transforms,
                      positives, dims, _global_crop_size, _local_crop_size,
                      crop_size, split_modules, data_vars>>

\* model.build(datamodule, trainer=trainer, copy=copy). The model is built
\* once; the hooks below need the bound data module and trainer.
Build(copy) ==
    /\ trainer = None
    /\ Install(InstanceDiscriminator_build(State, user_dm, user_trainer, copy))
    /\ phase' = "Ready"
    /\ UNCHANGED <<stage, fit_call, results, rounds>>
    /\ Frozen

\* The outer run moves on by one training epoch: self.trainer trains the
\* model. An evaluation may start at any epoch of the outer run, the first
\* included (sanity check, validation every n epochs, test after the fit).
OuterEpoch ==
    /\ trainer # None
    /\ LET fl == trainers[trainer].fit_loop
       IN /\ ~FitLoop_done(fit_loops[fl])
          /\ fit_loops' = [fit_loops EXCEPT ![fl].current_epoch = @ + 1,
                                            ![fl].global_step = @ + 1]
    /\ student' = [student EXCEPT !.grad = "outer"]
    /\ UNCHANGED <<datamodules, trainers, classifiers, datamodule, trainer,
                   _finetuner, _ft_clf, phase, stage, fit_call, results, rounds,
                   constructed, encoders>>
    /\ Frozen

\* on_validation_start / on_test_start -> on_inference_start -> _finetune.
\* An exception that leaves the hook ends the outer run.
OnInferenceStart(st, fail) ==
    /\ trainer # None
    /\ Len(rounds) < MaxRounds
    /\ (_ft_clf = None => Len(classifiers) < MaxClassifiers)
    /\ LET r == finetune(State, fail)
       IN /\ Install(r.state)
          /\ fit_call' = r.call
          /\ rounds' = Append(rounds, r.call.clf)
          /\ phase' = IF r.call.raised THEN "Aborted" ELSE "Evaluating"
    /\ stage' = st
    /\ UNCHANGED results
    /\ Frozen

\* inference_step: conduit does nothing; bolts hands the batch to eval_clf
InferenceStep(st) ==
    /\ trainer # None
    /\ (lib = "bolts" /\ _ft_clf = None => Len(classifiers) < MaxClassifiers)
    /\ Install(IF lib = "bolts" THEN ft_clf(State) ELSE State)
    /\ UNCHANGED <<phase, stage, fit_call, results, rounds>>
    /\ Frozen

\* validation_epoch_end / test_epoch_end -> inference_epoch_end(outputs, stage)
InferenceEpochEnd(st, fail) ==
    /\ trainer # None
    /\ (_ft_clf = None => Len(classifiers) < MaxClassifiers)
    /\ LET s == inference_epoch_end(State, FALSE)
           live == inference_epoch_end(State, TRUE)
       IN /\ Install(IF fail THEN live ELSE s)
          /\ results' = IF fail THEN results ELSE inference_metrics(live, st)
    /\ phase' = IF fail THEN "Aborted" ELSE "Ready"
    /\ UNCHANGED <<stage, fit_call, rounds>>
    /\ Frozen

\* MomentumTeacherModel.build(datamodule, trainer=trainer, copy=copy)
BuildTeacher(copy) ==
    /\ trainer = None
    /\ Install(MomentumTeacherModel_build(State, user_dm, user_trainer, copy))
    /\ phase' = "Ready"
    /\ UNCHANGED <<stage, fit_call, results, rounds>>
    /\ Frozen

\* One training batch of the outer run on the momentum-teacher model: the
\* loss of the student's and the teacher's outputs is backpropagated, the
\* optimizer steps over the model's parameters, then the trainer's callbacks
\* are called with the step just taken.
TrainingStep ==
    /\ trainer # None
    /\ LET fl == trainers[trainer].fit_loop
           step == fit_loops[fl].global_step
           opt == [student |-> optimizer_step(backward(encoders.student), 1),
                   teacher |-> optimizer_step(backward(encoders.teacher), 1)]
       IN /\ ~FitLoop_done(fit_loops[fl])
          /\ encoders' = on_train_batch_end(trainers[trainer].callbacks, opt,
                                            momentum_at(momentum_schedule, step))
          /\ fit_loops' = [fit_loops EXCEPT ![fl].current_epoch = @ + 1,
                                            ![fl].global_step = @ + 1]
    /\ student' = [student EXCEPT !.grad = "outer"]
    /\ UNCHANGED <<datamodules, trainers, classifiers, datamodule, trainer,
                   _finetuner, _ft_clf, phase, stage, fit_call, results, rounds,
                   constructed>>
    /\ Frozen

---------------------------------------------------------------------------
(* Spec: the hooks called as the outer training engine calls them: build,   *)
(* then training epochs, each evaluation a start hook, steps and the        *)
(* epoch-end hook; an exception ends the run.                               *)

Next ==
    \/ \E copy \in BOOLEAN : Build(copy)
    \/ phase = "Ready" /\ OuterEpoch
    \/ phase = "Ready" /\ \E st \in Stages, fail \in BOOLEAN :
                             OnInferenceStart(st, fail)
    \/ phase = "Evaluating" /\ InferenceStep(stage)
    \/ phase = "Evaluating" /\ \E fail \in BOOLEAN : InferenceEpochEnd(stage, fail)

Spec == Init /\ [][Next]_vars

(* SpecAnyOrder: the hooks called in any order once the model is built,     *)
(* also after a call that raised, for one configuration of the data module. *)

InitAnyOrder ==
    /\ Init
    /\ datamodules[user_dm].kind = "vision"
    /\ datamodules[user_dm].stratified_sampling
    /\ eval_batch_size # None
    /\ eval_epochs = EvalEpochs
    /\ hook_freezes

NextAnyOrder ==
    \/ \E copy \in BOOLEAN : Build(copy)
    \/ OuterEpoch
    \/ \E st \in Stages, fail \in BOOLEAN : OnInferenceStart(st, fail)
    \/ \E st \in Stages : InferenceStep(st)
    \/ \E st \in Stages, fail \in BOOLEAN : InferenceEpochEnd(st, fail)

SpecAnyOrder == InitAnyOrder /\ [][NextAnyOrder]_vars

(* SpecTeacher: a momentum-teacher model: build, training steps of the outer *)
(* run and evaluation rounds in the engine's order.                          *)

InitTeacher ==
    /\ lib \in {"conduit", "bolts"}
    /\ pl_decrement = FALSE
    /\ hook_freezes \in BOOLEAN
    /\ datamodules = << [kind |-> "vision",
                         stratified_sampling |-> FALSE,
                         training_mode |-> "epoch",
                         train_batch_size |-> 3,
                         train_transforms |-> "default",
                         data |-> "dataset"] >>
    /\ \E cbs \in {NoCallbacks, << >>, <<"ModelCheckpoint", "LearningRateMonitor">>} :
         trainers = << [fit_loop |-> 1, num_sanity_val_batches |-> 2,
                        logger |-> "logger",
                        callbacks |-> cbs,
                        model |-> None] >>
    /\ fit_loops = << [max_epochs |-> MaxSteps, max_steps |-> MaxSteps,
                       current_epoch |-> 0, global_step |-> 0] >>
    /\ classifiers = << >>
    /\ datamodule = None
    /\ trainer = None
    /\ _finetuner = None
    /\ _ft_clf = None
    /\ eval_batch_size = None
    /\ eval_epochs = MaxSteps + 1
    /\ student = [grad |-> "none", tuned |-> FALSE]
    /\ phase = "Idle"
    /\ stage = "none"
    /\ fit_call = NoCall
    /\ results = NoResults
    /\ rounds = << >>
    /\ constructed = [classifiers |-> 0, trainers |-> 0]
    /\ momentum_schedule \in Schedules
    /\ features \in {"student", "teacher"}
    /\ encoders = NoEncoders
    /\ NoViews
    /\ NoCrops
    /\ split_modules = << >>
    /\ NoData

NextTeacher ==
    \/ \E copy \in BOOLEAN : BuildTeacher(copy)
    \/ phase = "Ready" /\ TrainingStep
    \/ phase = "Ready" /\ \E fail \in BOOLEAN : OnInferenceStart("validate", fail)
    \/ phase = "Evaluating" /\ InferenceStep(stage)
    \/ phase = "Evaluating" /\ \E fail \in BOOLEAN : InferenceEpochEnd(stage, fail)

SpecTeacher == InitTeacher /\ [][NextTeacher]_vars

(* SpecViews: _get_positives called on a training batch, for a model that   *)
(* is constructed; the call reads batch.x and self.batch_transforms only.   *)

\* the variables of the evaluation protocol
hook_vars ==
    <<datamodules, trainers, fit_loops, classifiers, datamodule, trainer,
      _finetuner, _ft_clf, student, phase, stage, fit_call, results, rounds,
      constructed, encoders>>

\* the configuration of the model and of the run
config_vars ==
    <<lib, pl_decrement, hook_freezes, eval_batch_size, eval_epochs,
      momentum_schedule, features>>

\* the user's data module
UserModule(kind) ==
    [kind |-> kind, stratified_sampling |-> FALSE, training_mode |-> "epoch",
     train_batch_size |-> 3, train_transforms |-> "default", data |-> "dataset"]

\* a model constructed and not built, and the user's trainer
Unbuilt ==
    /\ lib \in {"conduit", "bolts"}
    /\ pl_decrement = FALSE
    /\ hook_freezes = TRUE
    /\ trainers = << [fit_loop |-> 1, num_sanity_val_batches |-> 2,
                      logger |-> "logger",
                      callbacks |-> <<"ModelCheckpoint">>,
                      model |-> None] >>
    /\ fit_loops = << [max_epochs |-> OuterMaxEpochs, max_steps |-> OuterMaxEpochs,
                       current_epoch |-> 0, global_step |-> 0] >>
    /\ classifiers = << >>
    /\ datamodule = None
    /\ trainer = None
    /\ _finetuner = None
    /\ _ft_clf = None
    /\ eval_batch_size = None
    /\ eval_epochs = 1
    /\ student = [grad |-> "none", tuned |-> FALSE]
    /\ phase = "Idle"
    /\ stage = "none"
    /\ fit_call = NoCall
    /\ results = NoResults
    /\ rounds = << >>
    /\ constructed = [classifiers |-> 0, trainers |-> 0]
    /\ momentum_schedule = NoSchedule
    /\ features = "student"
    /\ encoders = NoEncoders

InitViews ==
    /\ Unbuilt
    /\ datamodules = <<UserModule("vision")>>
    /\ NoCrops
    /\ split_modules = << >>
    /\ NoData
    /\ batch_x \in {Tensor(d) : d \in Tensors}
                  \cup MultiCropOutputs
                  \cup {PlainList(d) : d \in Tensors}
    /\ batch_transforms \in {"None", "transform"}
    /\ positives = NotCalled

\* self._get_positives(batch) in a training step
GetPositives ==
    /\ positives' = get_positives(batch_x, batch_transforms)
    /\ UNCHANGED <<hook_vars, config_vars, batch_x, batch_transforms>>
    /\ UNCHANGED <<dims, _global_crop_size, _local_crop_size, crop_size,
                   split_modules, data_vars>>

NextViews == GetPositives

SpecViews == InitViews /\ [][NextViews]_vars

(* SpecCrops: an instance discriminator built on the user's data module,    *)
(* then local_crop_size read.                                               *)

Sizes ==
    {Scalar(g) : g \in GlobalSizes} \cup {Pair(h, w) : h, w \in GlobalSizes}

Scales ==
    {Scalar(s) : s \in LocalScales} \cup {Pair(h, w) : h, w \in LocalScales}

InitCrops ==
    /\ Unbuilt
    /\ \E kind \in {"vision", "tabular"} : datamodules = <<UserModule(kind)>>
    /\ NoViews
    /\ dims \in {<<3, 32, 32>>, <<1, 7, 224>>}
    /\ _global_crop_size \in {NoSize} \cup Sizes
    /\ _local_crop_size \in Scales
    /\ crop_size = NotRead
    /\ split_modules = << >>
    /\ NoData

\* self.local_crop_size, read once the model is built
LocalCropSize ==
    /\ trainer # None
    /\ crop_size' = local_crop_size(datamodules[datamodule], _global_crop_size,
                                    _local_crop_size)
    /\ UNCHANGED <<hook_vars, config_vars, batch_x, batch_transforms, positives>>
    /\ UNCHANGED <<dims, _global_crop_size, _local_crop_size, split_modules,
                   data_vars>>

NextCrops ==
    \/ \E copy \in BOOLEAN : Build(copy)
    \/ LocalCropSize

SpecCrops == InitCrops /\ [][NextCrops]_vars

(* SpecSplits: two DummyVisionDataModules made with the same seed and       *)
(* proportions, each prepared and set up, in any interleaving.              *)

InitSplits ==
    /\ Unbuilt
    /\ lib = "conduit"
    /\ datamodules = <<UserModule("vision")>>
    /\ NoViews
    /\ NoCrops
    /\ NoData
    /\ \E val_prop, test_prop \in 0..PropUnit :
          /\ val_prop + test_prop <= PropUnit
          /\ split_modules =
                [i \in 1..2 |-> DummyVisionDataModule(NumSamples, val_prop,
                                                      test_prop, DefaultSeed)]

\* dm.prepare_data()
PrepareData(i) ==
    /\ ~split_modules[i].prepared
    /\ split_modules' = [split_modules EXCEPT ![i].prepared = TRUE]
    /\ UNCHANGED <<hook_vars, config_vars, batch_x, batch_transforms, positives,
                   dims, _global_crop_size, _local_crop_size, crop_size,
                   data_vars>>

\* dm.setup()
Setup(i) ==
    /\ split_modules[i].prepared
    /\ split_modules[i].setups < MaxSetups
    /\ \E r \in IF split_modules[i].is_set_up
                 THEN {[raised |-> "None", splits |-> split_modules[i].splits]}
                 ELSE get_splits(split_modules[i]) :
          split_modules' = [split_modules EXCEPT ![i] = setup(@, r)]
    /\ UNCHANGED <<hook_vars, config_vars, batch_x, batch_transforms, positives,
                   dims, _global_crop_size, _local_crop_size, crop_size,
                   data_vars>>

NextSplits ==
    \/ \E i \in 1..2 : PrepareData(i)
    \/ \E i \in 1..2 : Setup(i)

SpecSplits == InitSplits /\ [][NextSplits]_vars

(* SpecCat: two datasets of equal sample shape, with or without y and s,    *)
(* then cat, + and += on them.                                              *)

\* the samples of the dataset k
SamplesOf(k, n) == [i \in 1..n |-> 10 * k + i]

\* the targets a dataset k of n samples can be made with
Labels(k, n) ==
    {NoTensor, torch_as_tensor([i \in 1..n |-> k - 1]),
     torch_as_tensor([i \in 1..n |-> (i + k) % 2])}

\* the sensitive attributes a dataset k of n samples can be made with
Attributes(k, n) ==
    {NoTensor, torch_as_tensor([i \in 1..n |-> (i + k + 1) % 2])}

\* the datasets made by the constructor
Datasets(k) ==
    UNION {{CdtDataset(SamplesOf(k, n), y, s) :
               y \in Labels(k, n), s \in Attributes(k, n)} :
           n \in 1..MaxSamples}

InitCat ==
    /\ Unbuilt
    /\ lib = "conduit"
    /\ datamodules = <<UserModule("vision")>>
    /\ NoViews
    /\ NoCrops
    /\ split_modules = << >>
    /\ datasets \in {<<a, b>> : a \in Datasets(1), b \in Datasets(2)}
    /\ cat_call = NoCatCall
    /\ access = NotAccessed
    /\ NoTabular

\* the record of a call
CatCall(op, i, j, inplace, r, returned) ==
    [op |-> op, inplace |-> inplace, self |-> i, other |-> j,
     before |-> datasets, returned |-> returned, raised |-> r.raised,
     count |-> cat_call.count + 1]

\* ds_i.cat(ds_j, inplace=inplace)
Cat(i, j, inplace) ==
    /\ cat_call.count < MaxCats
    /\ LET r == cat(datasets, i, j, inplace)
       IN /\ datasets' = r.heap
          /\ cat_call' = CatCall("cat", i, j, inplace, r, r.returned)
    /\ UNCHANGED <<hook_vars, config_vars, batch_x, batch_transforms, positives,
                   dims, _global_crop_size, _local_crop_size, crop_size,
                   split_modules, access, tabular_dm, first_batch>>

\* ds_i += ds_j: cat in place, then self is returned
IAdd(i, j) ==
    /\ cat_call.count < MaxCats
    /\ LET r == cat(datasets, i, j, TRUE)
       IN /\ datasets' = r.heap
          /\ cat_call' = CatCall("iadd", i, j, TRUE, r,
                                 IF r.raised = "None" THEN i ELSE None)
    /\ UNCHANGED <<hook_vars, config_vars, batch_x, batch_transforms, positives,
                   dims, _global_crop_size, _local_crop_size, crop_size,
                   split_modules, access, tabular_dm, first_batch>>

\* ds_i + ds_j
Add(i, j) ==
    /\ cat_call.count < MaxCats
    /\ LET r == cat(datasets, i, j, FALSE)
       IN /\ datasets' = r.heap
          /\ cat_call' = CatCall("add", i, j, FALSE, r, r.returned)
    /\ UNCHANGED <<hook_vars, config_vars, batch_x, batch_transforms, positives,
                   dims, _global_crop_size, _local_crop_size, crop_size,
                   split_modules, access, tabular_dm, first_batch>>

NextCat ==
    \/ \E i, j \in DOMAIN datasets, inplace \in BOOLEAN : Cat(i, j, inplace)
    \/ \E i, j \in DOMAIN datasets : IAdd(i, j)
    \/ \E i, j \in DOMAIN datasets : Add(i, j)

SpecCat == InitCat /\ [][NextCat]_vars

(* SpecAccess: the dimensions and cardinalities of a dataset read, in any   *)
(* order and any number of times.                                           *)

InitAccess ==
    /\ Unbuilt
    /\ lib = "conduit"
    /\ datamodules = <<UserModule("vision")>>
    /\ NoViews
    /\ NoCrops
    /\ split_modules = << >>
    /\ datasets \in {<<a>> : a \in Datasets(1)}
    /\ cat_call = NoCatCall
    /\ access = NotAccessed
    /\ NoTabular

\* ds_i.dim_s, ds_i.dim_y, ds_i.card_y or ds_i.card_s
ReadProperty(i, prop) ==
    /\ LET r == getattr(datasets[i], prop)
       IN /\ datasets' = [datasets EXCEPT ![i] = r.ds]
          /\ access' = [prop |-> prop, ds |-> i, raised |-> r.raised,
                        value |-> r.value]
    /\ UNCHANGED <<hook_vars, config_vars, batch_x, batch_transforms, positives,
                   dims, _global_crop_size, _local_crop_size, crop_size,
                   split_modules, cat_call, tabular_dm, first_batch>>

NextAccess == \E i \in DOMAIN datasets, prop \in Properties : ReadProperty(i, prop)

SpecAccess == InitAccess /\ [][NextAccess]_vars

(* SpecTabular: a CreditDataModule made as the data module test makes it,   *)
(* prepared, set up, and the first batch of its train loader taken.         *)

\* the numbers of rows of the table, each leaving a train split of at least
\* the largest batch
TabularRows == {3 * BATCHSIZE, 4 * BATCHSIZE, 5 * BATCHSIZE}

InitTabular ==
    /\ Unbuilt
    /\ lib = "bolts"
    /\ datamodules = <<UserModule("tabular")>>
    /\ NoViews
    /\ NoCrops
    /\ split_modules = << >>
    /\ datasets = << >>
    /\ cat_call = NoCatCall
    /\ access = NotAccessed
    /\ \E batch_size \in {1, BATCHSIZE, BATCHSIZE + 1},
          stratified \in BOOLEAN, disc \in BOOLEAN, rows \in TabularRows :
          tabular_dm = [made |-> TRUE,
                        batch_size |-> batch_size, stratified |-> stratified,
                        rows |-> rows,
                        dm |-> CreditDataModule(batch_size, stratified, disc)]
    /\ first_batch = NoBatch

\* dm.prepare_data()
TabularPrepareData ==
    /\ ~tabular_dm.dm.base.prepared
    /\ tabular_dm' = [tabular_dm EXCEPT !.dm = prepare_data(@, tabular_dm.rows)]
    /\ UNCHANGED <<hook_vars, config_vars, batch_x, batch_transforms, positives,
                   dims, _global_crop_size, _local_crop_size, crop_size,
                   split_modules, datasets, cat_call, access, first_batch>>

\* dm.setup()
TabularSetup ==
    /\ tabular_dm.dm.base.prepared
    /\ tabular_dm.dm.base.setups < MaxSetups
    /\ tabular_dm' = [tabular_dm EXCEPT !.dm = tabular_setup(@)]
    /\ UNCHANGED <<hook_vars, config_vars, batch_x, batch_transforms, positives,
                   dims, _global_crop_size, _local_crop_size, crop_size,
                   split_modules, datasets, cat_call, access, first_batch>>

\* batch = next(iter(dm.train_dataloader()))
TrainDataloader ==
    /\ tabular_dm.dm.base.is_set_up
    /\ first_batch' = train_dataloader(tabular_dm.dm)
    /\ UNCHANGED <<hook_vars, config_vars, batch_x, batch_transforms, positives,
                   dims, _global_crop_size, _local_crop_size, crop_size,
                   split_modules, datasets, cat_call, access, tabular_dm>>

NextTabular ==
    \/ TabularPrepareData
    \/ TabularSetup
    \/ TrainDataloader

SpecTabular == InitTabular /\ [][NextTabular]_vars

---------------------------------------------------------------------------
(* Properties *)

Bound == datamodules[datamodule]
Nested == trainers[_finetuner]
NestedLoop == fit_loops[trainers[_finetuner].fit_loop]
OuterLoop == fit_loops[trainers[trainer].fit_loop]

\* C1: in any sequence of hook calls a classifier is constructed only when the
\* model holds none, and a nested trainer only when it holds none; each call
\* constructs at most one of each.
C1_OneLiveClassifierAndTrainer ==
    [][/\ (constructed.classifiers' # constructed.classifiers =>
              /\ _ft_clf = None
              /\ constructed.classifiers' = constructed.classifiers + 1)
       /\ (constructed.trainers' # constructed.trainers =>
              /\ _finetuner = None
              /\ constructed.trainers' = constructed.trainers + 1)]_vars

C1_Witness ==
    /\ constructed.classifiers >= 2
    /\ constructed.trainers = 1
    /\ _ft_clf # None

\* C2: the classifiers of successive evaluation rounds are different instances,
\* one factory call per round, and the classifier of a round enters its fit
\* with no training state.
C2_FreshClassifierEachRound ==
    /\ \A i, j \in DOMAIN rounds : i < j => rounds[i] # rounds[j]
    /\ constructed.classifiers >= Len(rounds)
    /\ rounds # << >> =>
          /\ fit_call.clf = rounds[Len(rounds)]
          /\ fit_call.clf_epochs_before = 0
          /\ ~fit_call.clf_fitted_before

C2_Witness ==
    /\ Len(rounds) = 2
    /\ phase = "Evaluating"
    /\ classifiers[rounds[1]].epochs > 0

\* C3: no classifier exists before the first access; whenever the model is
\* Idle or Ready (built, or inference_epoch_end has returned) the reference
\* is None, and during a round the classifier held is the one built last.
C3_LazyAndClearedAfterRound ==
    /\ phase \in {"Idle", "Ready"} =>
          /\ _ft_clf = None
          /\ constructed.classifiers = Len(rounds)
    /\ phase = "Evaluating" =>
          /\ _ft_clf # None
          /\ _ft_clf = Len(classifiers)
          /\ constructed.classifiers = Len(rounds)

C3_Witness ==
    /\ phase = "Ready"
    /\ Len(rounds) = 1
    /\ results.clf = rounds[1]
    /\ _ft_clf = None

\* C4: every completed nested fit runs eval_epochs epochs.
C4_FullRunEachRound ==
    fit_call.completed => fit_call.epochs_run = eval_epochs

\* C5: after build the data module bound to the model, when it is a vision
\* data module, has instance_transforms as its training transform.
C5_BoundModuleHasInstanceTransforms ==
    (trainer # None /\ Bound.kind = "vision") =>
        Bound.train_transforms = "instance_transforms"

\* C6: the nested trainer has max_epochs = eval_epochs, no step budget, no
\* sanity-check batches, the progress indicator as its only callback, and no
\* logger.
C6_NestedTrainerConfiguration ==
    _finetuner # None =>
        /\ NestedLoop.max_epochs = eval_epochs
        /\ NestedLoop.max_steps = None
        /\ Nested.num_sanity_val_batches = 0
        /\ Nested.callbacks = <<"PostHocProgressBar">>
        /\ Nested.logger = "None"

\* C7: an evaluation round leaves the outer trainer, its budget and counters
\* and the outer model's gradient and optimizer state as they were.
C7_OuterRunUnaffected ==
    [][(\E st \in Stages, fail \in BOOLEAN : OnInferenceStart(st, fail)) =>
          /\ trainers'[trainer] = trainers[trainer]
          /\ fit_loops'[trainers[trainer].fit_loop] = OuterLoop
          /\ student' = student]_vars

\* C8: the loader of the nested fit comes from a copy of the bound module with
\* stratified sampling off, training mode epoch, the evaluation batch size if
\* one is configured, the evaluation transform if it is a vision module, and
\* everything else as in the bound module.
C8_EvaluationDataModule ==
    rounds # << >> =>
        LET l == fit_call.loader
        IN /\ l.stratified_sampling = FALSE
           /\ l.training_mode = "epoch"
           /\ l.train_batch_size = IF eval_batch_size # None
                                    THEN eval_batch_size
                                    ELSE Bound.train_batch_size
           /\ l.train_transforms = IF l.kind = "vision"
                                    THEN "ft_transform"
                                    ELSE Bound.train_transforms
           /\ l.kind = Bound.kind
           /\ l.data = Bound.data

C8_Witness ==
    /\ rounds # << >>
    /\ Bound.kind = "vision"
    /\ Bound.stratified_sampling
    /\ eval_batch_size # None
    /\ fit_call.loader.train_batch_size # Bound.train_batch_size

\* C9: once the model is built no call changes the bound data module, and
\* it stays the module the model is bound to.
C9_BoundModuleNotMutated ==
    [][trainer # None =>
          /\ datamodule' = datamodule
          /\ datamodules'[datamodule] = datamodules[datamodule]]_vars

C9_Witness ==
    /\ Len(rounds) = 2
    /\ Bound.stratified_sampling
    /\ Bound.training_mode = "step"
    /\ fit_call.loader.training_mode = "epoch"

\* C10 as stated: the metrics returned come from a run of the nested trainer,
\* validate for the validate stage and test otherwise, on the classifier the
\* round's fit was called on.
C10_InferenceByNestedTrainer ==
    (phase = "Ready" /\ rounds # << >>) =>
        /\ results.by # None
        /\ results.by = _finetuner
        /\ results.entry = stage
        /\ results.clf = fit_call.clf
        /\ fit_call.completed

\* C10 amended: within a round the fit call has returned before any inference
\* on the classifier; in conduit the metrics come from the nested trainer's
\* validate (stage validate) or test (otherwise) on that classifier, in bolts
\* from the classifier's own aggregation of the outer loop's outputs.
C10_FitBeforeInference ==
    /\ phase = "Evaluating" =>
          /\ _ft_clf = fit_call.clf
          /\ fit_call.completed
          /\ classifiers[_ft_clf].fitted
    /\ (phase = "Ready" /\ rounds # << >>) =>
          /\ results.clf = fit_call.clf
          /\ results.clf_fitted
          /\ fit_call.completed
          /\ results.entry = stage
          /\ lib = "conduit" => results.by = _finetuner /\ results.by = fit_call.trainer
          /\ lib = "bolts" => results.by = None

C10_Witness ==
    /\ phase = "Ready"
    /\ Len(rounds) = 2
    /\ results.entry = "test"
    /\ results.clf = rounds[2]

\* C11: an exception raised inside the nested fit leaves on_inference_start
\* and ends the outer run; the fit was called once, not again, and the round
\* does not go on to inference.
C11_FitExceptionPropagates ==
    fit_call.fit_raised =>
        /\ fit_call.raised
        /\ fit_call.fits = 1
        /\ ~fit_call.completed
        /\ phase = "Aborted"

C11_Witness ==
    /\ fit_call.fit_raised
    /\ phase = "Aborted"
    /\ Len(rounds) = 2

\* C12: once build has constructed the encoder pair, and in every state after
\* it, every teacher parameter has gradient tracking off and every student
\* parameter has it on; before the first training step no parameter carries
\* a gradient.
C12_TeacherGradientTrackingOff ==
    trainer # None =>
        /\ Len(encoders.teacher) = Len(_init_encoders.teacher)
        /\ Len(encoders.student) = Len(_init_encoders.student)
        /\ \A i \in DOMAIN encoders.teacher : ~encoders.teacher[i].requires_grad
        /\ \A i \in DOMAIN encoders.student : encoders.student[i].requires_grad
        /\ (OuterLoop.global_step = 0 /\ rounds = << >>) =>
              \A i \in DOMAIN encoders.teacher :
                  /\ ~encoders.teacher[i].grad
                  /\ encoders.teacher[i].value = _init_encoders.teacher[i].value

C12_Witness ==
    /\ phase = "Ready"
    /\ OuterLoop.global_step = 0
    /\ rounds = << >>
    /\ encoders.teacher # << >>
    /\ ~encoders.teacher[1].requires_grad
    /\ encoders.student[1].requires_grad

C14_TeacherNeverOptimized ==
    [][(encoders.teacher # << >>) =>
          /\ \A i \in DOMAIN encoders'.teacher :
                encoders'.teacher[i].opt_steps = 0
          /\ encoders'.teacher # encoders.teacher =>
                \E m10 \in 0..9 : \A i \in DOMAIN encoders.teacher :
                    /\ 10 * encoders'.teacher[i].value =
                          m10 * encoders.teacher[i].value
                          + (10 - m10) * encoders'.student[i].value
                    /\ encoders'.teacher[i].requires_grad
                          = encoders.teacher[i].requires_grad
                    /\ encoders'.teacher[i].grad = encoders.teacher[i].grad]_vars

C14_Witness ==
    /\ features = "teacher"
    /\ ~hook_freezes
    /\ rounds # << >>
    /\ fit_call.epochs_run > 0
    /\ OuterLoop.global_step = MaxSteps
    /\ encoders.teacher[1].opt_steps = 0
    /\ encoders.teacher[1].value # _init_encoders.teacher[1].value
    /\ encoders.student[1].opt_steps = MaxSteps

\* C15: build leaves the bound trainer with the callbacks the trainer handed
\* to it had, in their order, followed by one weight-synchronisation
\* callback; with the callback alone when the trainer's callbacks were None.
C15_CallbackRegistered ==
    [][(\E copy \in BOOLEAN : BuildTeacher(copy)) =>
          LET before == trainers[user_trainer].callbacks
              after == trainers'[trainer'].callbacks
          IN /\ before = NoCallbacks => after = <<"MeanTeacherWeightUpdate">>
             /\ before # NoCallbacks =>
                   /\ Len(after) = Len(before) + 1
                   /\ SubSeq(after, 1, Len(before)) = before
                   /\ after[Len(after)] = "MeanTeacherWeightUpdate"]_vars

C15_Witness ==
    /\ trainer # None
    /\ OuterLoop.global_step = 0
    /\ rounds = << >>
    /\ Len(trainers[trainer].callbacks) = 3
    /\ trainers[trainer].callbacks[1] = "ModelCheckpoint"
    /\ trainers[trainer].callbacks[3] = "MeanTeacherWeightUpdate"

\* C16: on a plain tensor with no batch transform _get_positives returns a
\* MultiCropOutput whose two global crops are each the input x, with no local
\* crops; on an x that is neither a tensor nor a MultiCropOutput it raises a
\* TypeError and returns nothing.
C16_DuplicationAndTypeError ==
    positives # NotCalled =>
        /\ (batch_x.type = "Tensor" /\ batch_transforms = "None") =>
              /\ positives.raised = "None"
              /\ positives.value.type = "MultiCropOutput"
              /\ positives.value.global_crops = <<batch_x.data, batch_x.data>>
              /\ positives.value.local_crops = << >>
        /\ batch_x.type \notin {"Tensor", "MultiCropOutput"} =>
              /\ positives.raised = "TypeError"
              /\ positives.value.type = "None"

C16_Witness ==
    /\ positives # NotCalled
    /\ batch_x.type = "Tensor"
    /\ batch_transforms = "None"
    /\ Len(batch_x.data) = MaxBatch
    /\ positives.value.global_crops[2] = batch_x.data

\* C17 as stated: every call that returns gives exactly two global crops.
C17_ExactlyTwoGlobalCrops ==
    (positives # NotCalled /\ batch_x.type \in {"Tensor", "MultiCropOutput"}) =>
        /\ positives.raised = "None"
        /\ positives.value.type = "MultiCropOutput"
        /\ Len(positives.value.global_crops) = 2

\* C17 amended: on a plain tensor, with or without a batch transform, the
\* result has exactly two global crops, each of the input's batch size, and
\* no local crops; on a MultiCropOutput it has as many global crops as the
\* input, which is at least two, and two when the input has two.
C17_GlobalCropCount ==
    (positives # NotCalled /\ batch_x.type \in {"Tensor", "MultiCropOutput"}) =>
        /\ positives.raised = "None"
        /\ positives.value.type = "MultiCropOutput"
        /\ batch_x.type = "Tensor" =>
              /\ Len(positives.value.global_crops) = 2
              /\ \A i \in 1..2 :
                    Len(positives.value.global_crops[i]) = Len(batch_x.data)
              /\ positives.value.local_crops = << >>
        /\ batch_x.type = "MultiCropOutput" =>
              /\ Len(positives.value.global_crops) = Len(batch_x.global_crops)
              /\ Len(positives.value.global_crops) >= 2

C17_Witness ==
    /\ positives # NotCalled
    /\ batch_x.type = "Tensor"
    /\ batch_transforms = "transform"
    /\ Len(batch_x.data) = 1
    /\ Len(positives.value.global_crops) = 2
    /\ positives.value.global_crops[1] # positives.value.global_crops[2]

\* the global size a read of local_crop_size starts from
GlobalPerDim ==
    IF _global_crop_size = NoSize THEN <<dims[2], dims[3]>>
    ELSE IF _global_crop_size.kind = "int"
         THEN <<_global_crop_size.v[1], _global_crop_size.v[1]>>
         ELSE _global_crop_size.v

\* the scale of each dimension, in hundredths
ScalePerDim ==
    IF _local_crop_size.kind = "int"
    THEN <<_local_crop_size.v[1], _local_crop_size.v[1]>>
    ELSE _local_crop_size.v

\* C18 as stated: each dimension of the local crop size is the global size
\* times the scale, rounded to the nearest integer.
C18_RoundedToNearest ==
    (crop_size # NotRead /\ crop_size.raised = "None") =>
        \A i \in DOMAIN crop_size.value.v :
            LET p == GlobalPerDim[i] * ScalePerDim[i]
                n == crop_size.value.v[i]
            IN 100 * n - 50 <= p /\ p <= 100 * n + 50

\* C18 amended: each dimension of the local crop size is the global size
\* times the scale with the fraction cut off (the largest integer not above
\* the product); it is an int when size and scale both are, a pair otherwise;
\* for global size 224 and scale 0.43 it is 96.
C18_TruncatedScaledSize ==
    (crop_size # NotRead /\ datamodules[datamodule].kind = "vision") =>
        /\ crop_size.raised = "None"
        /\ crop_size.value.kind =
              IF _global_crop_size.kind = "int" /\ _local_crop_size.kind = "int"
              THEN "int" ELSE "tuple"
        /\ \A i \in DOMAIN crop_size.value.v :
              LET p == GlobalPerDim[i] * ScalePerDim[i]
                  n == crop_size.value.v[i]
              IN 100 * n <= p /\ p < 100 * (n + 1)
        /\ (_global_crop_size = Scalar(224) /\ _local_crop_size = Scalar(43)) =>
              crop_size.value = Scalar(96)

C18_Witness ==
    /\ crop_size # NotRead
    /\ _global_crop_size = Scalar(224)
    /\ _local_crop_size = Scalar(DefaultLocalCropSize)
    /\ crop_size.value = Scalar(96)

\* the samples of a split, as a set
Samples(s) == {s[i] : i \in DOMAIN s}

\* C19: for non-negative proportions with val_prop + test_prop <= 1, the
\* boundary included, a call of setup yields three splits that are pairwise
\* disjoint and whose sizes sum to the size of the dataset, the train split
\* having what val and test leave.
C19_SplitsPartitionDataset ==
    \A i \in DOMAIN split_modules :
        LET dm == split_modules[i]
        IN dm.setups > 0 =>
              /\ dm.raised = "None"
              /\ dm.is_set_up
              /\ Samples(dm.splits.train) \cap Samples(dm.splits.val) = {}
              /\ Samples(dm.splits.train) \cap Samples(dm.splits.test) = {}
              /\ Samples(dm.splits.val) \cap Samples(dm.splits.test) = {}
              /\ Len(dm.splits.train) + Len(dm.splits.val) + Len(dm.splits.test)
                    = dm.num_samples
              /\ Cardinality(Samples(dm.splits.train) \cup Samples(dm.splits.val)
                             \cup Samples(dm.splits.test)) = dm.num_samples

\* C20: a second setup leaves the splits of the first, and two data modules
\* with the same seed and proportions have the same splits once both are set
\* up.
C20_SetupDeterministic ==
    /\ \A i \in DOMAIN split_modules :
          split_modules[i].is_set_up => split_modules[i].splits = split_modules[i].first
    /\ \A i, j \in DOMAIN split_modules :
          (/\ split_modules[i].is_set_up
           /\ split_modules[j].is_set_up
           /\ split_modules[i].seed = split_modules[j].seed
           /\ split_modules[i].val_prop = split_modules[j].val_prop
           /\ split_modules[i].test_prop = split_modules[j].test_prop) =>
              split_modules[i].splits = split_modules[j].splits

\* C21: a call of cat, + or += on two datasets of equal sample shape returns
\* without an exception; the result has as many samples as the two inputs
\* together, and its y (its s) is the y (the s) of self followed by that of
\* other; with inplace=False the result is a new dataset that is returned and
\* self is as it was, with inplace=True the result is self and cat returns
\* None (+= returns self).
C21_CatConcatenates ==
    cat_call.op # "none" =>
        LET self0 == cat_call.before[cat_call.self]
            other0 == cat_call.before[cat_call.other]
            res == IF cat_call.inplace THEN datasets[cat_call.self]
                   ELSE datasets[cat_call.returned]
        IN /\ cat_call.raised = "None"
           /\ len(res) = len(self0) + len(other0)
           /\ res.x = self0.x \o other0.x
           /\ (~self0.y.is_none /\ ~other0.y.is_none) =>
                 /\ res.y.data = self0.y.data \o other0.y.data
                 /\ res.y.shape = <<len(res)>>
           /\ (~self0.s.is_none /\ ~other0.s.is_none) =>
                 /\ res.s.data = self0.s.data \o other0.s.data
                 /\ res.s.shape = <<len(res)>>
           /\ ~cat_call.inplace =>
                 /\ cat_call.returned \notin {None, cat_call.self, cat_call.other}
                 /\ datasets[cat_call.self] = self0
           /\ cat_call.inplace =>
                 cat_call.returned = IF cat_call.op = "iadd" THEN cat_call.self
                                     ELSE None
           /\ datasets[cat_call.other] = other0 \/ cat_call.other = cat_call.self

\* C22: a read of dim_s or card_s on a dataset without s, and of dim_y or
\* card_y on a dataset without y, raises AttributeError, at the first read and
\* at every later one, gives no value, and leaves the dataset with its cached
\* fields as they were: unset.
C22_AccessWithoutAttributeRaises ==
    [][\A i \in DOMAIN datasets, prop \in Properties :
          (/\ ReadProperty(i, prop)
           /\ IF prop \in {"dim_s", "card_s"} THEN datasets[i].s.is_none
              ELSE datasets[i].y.is_none) =>
              /\ access'.raised = "AttributeError"
              /\ access'.value = Unset
              /\ datasets' = datasets
              /\ IF prop \in {"dim_s", "card_s"}
                 THEN ~datasets'[i]._dim_s.set /\ ~datasets'[i]._card_s.set
                 ELSE ~datasets'[i]._dim_y.set /\ ~datasets'[i]._card_y.set]_vars

C22_Witness ==
    /\ access.prop = "dim_s"
    /\ access.raised = "AttributeError"
    /\ datasets[1].s.is_none
    /\ ~datasets[1].y.is_none
    /\ datasets[1]._card_y = Cached(<<2>>)
    /\ datasets[1]._dim_y = Cached(<<1>>)
    /\ ~datasets[1]._dim_s.set
    /\ ~datasets[1]._card_s.set

C24_CropsTransformedOneByOne ==
    (positives # NotCalled /\ batch_x.type = "MultiCropOutput") =>
        /\ positives.raised = "None"
        /\ positives.value.type = "MultiCropOutput"
        /\ batch_transforms = "None" => positives.value = batch_x
        /\ batch_transforms # "None" =>
              /\ Len(positives.value.global_crops) = Len(batch_x.global_crops)
              /\ Len(positives.value.local_crops) = Len(batch_x.local_crops)
              /\ \A i \in DOMAIN batch_x.global_crops :
                    positives.value.global_crops[i] =
                        BatchTransform(batch_x.global_crops[i])
              /\ \A i \in DOMAIN batch_x.local_crops :
                    positives.value.local_crops[i] =
                        BatchTransform(batch_x.local_crops[i])

C24_Witness ==
    /\ positives # NotCalled
    /\ batch_x.type = "MultiCropOutput"
    /\ batch_transforms = "transform"
    /\ Len(batch_x.global_crops) = MaxGlobalCrops
    /\ Len(batch_x.local_crops) = MaxLocalCrops
    /\ batch_x.global_crops[1] # batch_x.global_crops[2]
    /\ positives.value.global_crops[2] = BatchTransform(batch_x.global_crops[2])
    /\ positives.value.global_crops[2] # batch_x.global_crops[2]
    /\ positives.value.local_crops[1] = BatchTransform(batch_x.local_crops[1])

\* C25: in every sequence of hook calls, whenever the model holds an
\* evaluation classifier it holds a nested trainer too, which is the trainer
\* the classifier was built with and not the outer trainer; no classifier was
\* ever built without a nested trainer constructed for it to be bound to.
C25_ClassifierBoundToNestedTrainer ==
    /\ _ft_clf # None =>
          /\ _finetuner # None
          /\ _finetuner # trainer
          /\ classifiers[_ft_clf].trainer = _finetuner
    /\ constructed.classifiers > 0 => constructed.trainers > 0
    /\ \A c \in DOMAIN classifiers :
          /\ classifiers[c].trainer # None
          /\ classifiers[c].trainer \in DOMAIN trainers
          /\ classifiers[c].trainer = _finetuner

\* in bolts, a classifier built by an inference hook called before any round
C25_Witness ==
    /\ lib = "bolts"
    /\ rounds = << >>
    /\ _ft_clf # None
    /\ _finetuner # None
    /\ classifiers[_ft_clf].trainer = _finetuner
    /\ constructed.trainers = 1

\* C26: a model constructs at most one nested trainer; once the model holds
\* it no call clears or replaces it or gives it another fit loop, and its
\* counters are never set back; when it is constructed its counters are the
\* outer trainer's at that moment; every round's fit is run by it, starting
\* from the counters it has, on a classifier constructed for the round.
C26_OneNestedTrainer ==
    [][/\ constructed.trainers' <= 1
       /\ _finetuner # None =>
             /\ _finetuner' = _finetuner
             /\ trainers'[_finetuner].fit_loop = Nested.fit_loop
             /\ fit_loops'[Nested.fit_loop].global_step >= NestedLoop.global_step
             /\ fit_loops'[Nested.fit_loop].max_epochs = NestedLoop.max_epochs
       /\ (_finetuner = None /\ _finetuner' # None) =>
             /\ _finetuner' # trainer'
             /\ trainers'[_finetuner'].fit_loop # trainers'[trainer'].fit_loop
             /\ fit_call'.start_epoch = OuterLoop.current_epoch
       /\ (\E st \in Stages, fail \in BOOLEAN : OnInferenceStart(st, fail)) =>
             /\ fit_call'.trainer = _finetuner'
             /\ _finetuner # None => fit_call'.start_epoch = NestedLoop.current_epoch
             /\ constructed.classifiers' = constructed.classifiers + 1]_vars

C26_Witness ==
    /\ Len(rounds) = 2
    /\ phase = "Evaluating"
    /\ constructed.trainers = 1
    /\ constructed.classifiers = 2
    /\ fit_call.trainer = _finetuner
    /\ fit_call.start_epoch > 0
    /\ rounds[1] # rounds[2]

\* the callbacks of a trainer, as a set
Callbacks(tr) == {trainers[tr].callbacks[k] : k \in DOMAIN trainers[tr].callbacks}

\* C27: the outer trainer of a built momentum-teacher model holds the
\* weight-synchronisation callback and the nested trainer never does: its
\* callbacks are the progress indicator alone; every call of a round
\* (on_inference_start with its nested fit, inference_step,
\* inference_epoch_end with its nested inference) leaves every teacher
\* parameter as it was.
C27_TeacherUntouchedByRounds ==
    [][/\ trainer' # None => "MeanTeacherWeightUpdate" \in Callbacks(trainer)'
       /\ _finetuner' # None =>
             /\ "MeanTeacherWeightUpdate" \notin Callbacks(_finetuner)'
             /\ trainers'[_finetuner'].callbacks = <<"PostHocProgressBar">>
       /\ (\/ \E st \in Stages, fail \in BOOLEAN : OnInferenceStart(st, fail)
           \/ \E st \in Stages : InferenceStep(st)
           \/ \E st \in Stages, fail \in BOOLEAN : InferenceEpochEnd(st, fail)) =>
             encoders'.teacher = encoders.teacher]_vars

\* a round whose fit trained the student through the classifier, between two
\* training steps of the outer run
C27_Witness ==
    /\ phase = "Ready"
    /\ rounds # << >>
    /\ results.clf = rounds[Len(rounds)]
    /\ fit_call.epochs_run > 0
    /\ ~hook_freezes
    /\ features = "student"
    /\ OuterLoop.global_step = 1
    /\ encoders.student[1].opt_steps > 1
    /\ 10 * encoders.teacher[1].value = 36 * Unit
    /\ trainers[_finetuner].callbacks = <<"PostHocProgressBar">>

\* C28: a call of on_inference_start whose nested fit raises, and a call of
\* inference_epoch_end whose nested validate or test raises, leave the model
\* holding the classifier; while the model holds a classifier no hook call
\* constructs another: a later on_inference_start fits that same instance,
\* which has been handed to a fit before, and every later call leaves the
\* reference on it or clears it.
C28_ClassifierKeptAfterException ==
    [][/\ ((\E st \in Stages : OnInferenceStart(st, TRUE))
           \/ (\E st \in Stages : InferenceEpochEnd(st, TRUE))) =>
             /\ _ft_clf' # None
             /\ _ft_clf # None => _ft_clf' = _ft_clf
       /\ _ft_clf # None =>
             /\ constructed.classifiers' = constructed.classifiers
             /\ classifiers' = classifiers
                   \/ [classifiers' EXCEPT ![_ft_clf] = classifiers[_ft_clf]]
                         = classifiers
             /\ _ft_clf' \in {_ft_clf, None}
             /\ (\E st \in Stages, fail \in BOOLEAN : OnInferenceStart(st, fail)) =>
                   /\ fit_call'.clf = _ft_clf
                   /\ fit_call'.clf_fitted_before = classifiers[_ft_clf].fitted]_vars

\* two calls of on_inference_start, the first one's fit raised: one
\* classifier, fitted twice
C28_Witness ==
    /\ Len(rounds) = 2
    /\ rounds[1] = rounds[2]
    /\ constructed.classifiers = 1
    /\ fit_call.clf_fitted_before
    /\ fit_call.clf = rounds[1]
    /\ ~fit_call.raised
    /\ _ft_clf = rounds[1]

\* C29: in every sequence of hook calls, inference runs on the classifier
\* that the on_inference_start of the same round fitted and whose fit
\* returned: the metrics inference_epoch_end returns, and in bolts the
\* classifier inference_step delegates to, are never those of a classifier
\* the accessor built anew and no fit was called on.
C29_InferenceOnFittedOnly ==
    [][/\ (\E st \in Stages : InferenceEpochEnd(st, FALSE)) =>
             /\ results'.clf_fitted
             /\ results'.clf = fit_call.clf
             /\ fit_call.completed
       /\ (lib = "bolts" /\ \E st \in Stages : InferenceStep(st)) =>
             /\ classifiers'[_ft_clf'].fitted
             /\ _ft_clf' = fit_call.clf
             /\ fit_call.completed]_vars

====
